---- MODULE Spec2Model ----
(***************************************************************************)
(* Screen recorder of examples/screenrecorder: the sampler goroutine       *)
(* (StartScreenCap) hands bitmaps over an unbuffered channel to the        *)
(* orchestrator (StartScreenRecording), which converts, stamps, encodes    *)
(* and muxes them.  The encoder, the muxer and the screen capture are      *)
(* external libraries: every call that returns an error in the source is   *)
(* a nondeterministic choice between success and failure here.             *)
(***************************************************************************)
EXTENDS Integers, Sequences, FiniteSets, TLC

\* ---------------------------------------------------------------- bounds
\* Largest number of successful captures in one session.
MaxFrames == 2
\* Largest number of operator interrupts (SIGINT) in one session.
MaxSignals == 2

\* ------------------------------------------------------ program constants
\* 90 * 1000: the encoder time base is 1 / TimeBaseFreq.
TimeBaseFreq == 90000

\* Frame rates the entry point is called with: one that does not divide
\* 90000, the one main() uses, and one above the time-base frequency.
\* (A frame rate of zero or below panics in time.NewTicker or in the
\* division of line 148 before anything is captured.)
FpsSet == {7, 30, 90001}

\* Denominators of the stream time base the muxer may settle on when the
\* header is written (1/90000 is kept, or the container imposes 1/1000).
StreamTimeBases == {90000, 1000}

VARIABLES
    fps,          \* the fps argument of StartScreenRecording
    pc,           \* position of the orchestrator in StartScreenRecording
                  \* ("killed": the process was terminated by a signal)
    defers,       \* the orchestrator's stack of deferred calls
    calls,        \* history of the library calls the orchestrator made
    failure,      \* the error that made the orchestrator return, or "none"
    notify,       \* signal.NotifyContext: "unset", "armed", "stopped"
    cancelled,    \* ctx.Done() is closed
    sigCount,     \* number of SIGINTs delivered
    spc,          \* position of the sampler goroutine in StartScreenCap
    tick,         \* ticker.C holds a tick
    captures,     \* number of successful screenshot.CaptureRect calls
    pendingImg,   \* bitmap the sampler is sending on imgChan (0: none)
    delivered,    \* bitmaps received from imgChan, in order
    img,          \* bitmap the consumer is processing (0: none)
    pts,          \* the per-frame increment (variable pts, line 148)
    frameNumber,  \* the frame counter
    framePts,     \* pts stamped on the current frame
    encQueue,     \* frames buffered inside the encoder
    packet,       \* content of the current packet
    lastRecv,     \* outcome of the last ReceivePacket call
    streamTb,     \* denominator of videoStream.TimeBase() (0: unset)
    coloredLive   \* encoder-facing frames allocated and not freed

orchVars == <<pc, defers, calls, failure>>
ctxVars == <<notify, cancelled, sigCount>>
samplerVars == <<spc, tick, captures, pendingImg>>
consumerVars == <<delivered, img, pts, frameNumber, framePts, encQueue,
                  packet, lastRecv, coloredLive>>
vars == <<fps, orchVars, ctxVars, samplerVars, consumerVars, streamTb>>

\* ---------------------------------------------------------------- helpers
NoPacket == [id |-> 0, pts |-> 0, rs |-> 0]

\* One entry of the call history.
Call(op, ok) == [op |-> op, ok |-> ok, id |-> 0, pts |-> 0, rs |-> 0]
CallP(op, ok, p) == [op |-> op, ok |-> ok, id |-> p.id, pts |-> p.pts, rs |-> p.rs]

\* defer f(): push f on the stack of deferred calls.
Defer(d, f) == Append(d, f)

\* Positions of the calls of op in the history h.
Pos(h, op) == {i \in 1..Len(h) : h[i].op = op}
PosOk(h, op) == {i \in 1..Len(h) : h[i].op = op /\ h[i].ok}

Init ==
    /\ fps \in FpsSet
    /\ pc = "allocOutput"
    /\ defers = <<>>
    /\ calls = <<>>
    /\ failure = "none"
    /\ notify = "unset"
    /\ cancelled = FALSE
    /\ sigCount = 0
    /\ spc = "idle"
    /\ tick = FALSE
    /\ captures = 0
    /\ pendingImg = 0
    /\ delivered = <<>>
    /\ img = 0
    /\ pts = 0
    /\ frameNumber = 0
    /\ framePts = 0
    /\ encQueue = <<>>
    /\ packet = NoPacket
    /\ lastRecv = "none"
    /\ streamTb = 0
    /\ coloredLive = 0

\* ------------------------------------------------- orchestrator: startup
\* Mutant: the error is reported and the startup goes on to the capture.
StartupFailNoReturn(op, why) ==
    /\ calls' = Append(calls, Call(op, FALSE))
    /\ failure' = why
    /\ pc' = "notifyContext"
    /\ UNCHANGED defers

\* A startup step that returns on error: the function returns and the
\* deferred calls registered so far run.
StartupFail(op, why) ==
    /\ calls' = Append(calls, Call(op, FALSE))
    /\ failure' = why
    /\ pc' = "unwind"
    /\ UNCHANGED defers

\* astiav.AllocOutputFormatContext, defer outputCtx.Free()
AllocOutputFormatContext ==
    /\ pc = "allocOutput"
    /\ \/ /\ calls' = Append(calls, Call("AllocOutputFormatContext", TRUE))
          /\ defers' = Defer(defers, "outputCtx.Free")
          /\ pc' = "newCodec"
          /\ UNCHANGED failure
       \/ StartupFail("AllocOutputFormatContext", "allocOutput")
    /\ UNCHANGED <<fps, ctxVars, samplerVars, consumerVars, streamTb>>

\* Mutant: the codec context is returned without its fixed parameters.
NewCodecCallsUnset ==
    <<Call("FindEncoder", TRUE), Call("AllocCodecContext", TRUE)>>

\* The calls of a successful NewH264EncoderCodec: the lookup, the
\* allocation, then width, height, frame rate, time base 1/90000, pixel
\* format, bit rate and flags (one entry for the setters).
NewCodecCalls ==
    <<Call("FindEncoder", TRUE), Call("AllocCodecContext", TRUE),
      Call("SetCodecParameters", TRUE)>>

\* NewH264EncoderCodec: FindEncoder, AllocCodecContext, the fixed
\* parameters; then defer encCtx.Free() in the caller.
NewH264EncoderCodec ==
    /\ pc = "newCodec"
    /\ \/ /\ calls' = calls \o NewCodecCalls
          /\ defers' = Defer(defers, "encCtx.Free")
          /\ pc' = "newStream"
          /\ UNCHANGED failure
       \/ StartupFail("FindEncoder", "findEncoder")
       \/ /\ calls' = calls \o <<Call("FindEncoder", TRUE),
                                 Call("AllocCodecContext", FALSE)>>
          /\ failure' = "allocCodecContext"
          /\ pc' = "unwind"
          /\ UNCHANGED defers
    /\ UNCHANGED <<fps, ctxVars, samplerVars, consumerVars, streamTb>>

\* outputCtx.NewStream(enc)
NewStream ==
    /\ pc = "newStream"
    /\ \/ /\ calls' = Append(calls, Call("NewStream", TRUE))
          /\ pc' = "open"
          /\ UNCHANGED <<defers, failure>>
       \/ StartupFail("NewStream", "newStream")
    /\ UNCHANGED <<fps, ctxVars, samplerVars, consumerVars, streamTb>>

\* encCtx.Open(enc, nil)
Open ==
    /\ pc = "open"
    /\ \/ /\ calls' = Append(calls, Call("Open", TRUE))
          /\ pc' = "fromCodecContext"
          /\ UNCHANGED <<defers, failure>>
       \/ StartupFail("Open", "open")
    /\ UNCHANGED <<fps, ctxVars, samplerVars, consumerVars, streamTb>>

\* videoStream.CodecParameters().FromCodecContext(encCtx)
FromCodecContext ==
    /\ pc = "fromCodecContext"
    /\ \/ /\ calls' = Append(calls, Call("FromCodecContext", TRUE))
          /\ pc' = "setTimeBase"
          /\ UNCHANGED <<defers, failure>>
       \/ StartupFail("FromCodecContext", "fromCodecContext")
    /\ UNCHANGED <<fps, ctxVars, samplerVars, consumerVars, streamTb>>

\* videoStream.SetTimeBase(encCtx.TimeBase())
SetTimeBase ==
    /\ pc = "setTimeBase"
    /\ calls' = Append(calls, Call("SetTimeBase", TRUE))
    /\ streamTb' = TimeBaseFreq
    /\ pc' = "openIO"
    /\ UNCHANGED <<fps, defers, failure, ctxVars, samplerVars, consumerVars>>

\* astiav.OpenIOContext, defer ioCtx.Free()
OpenIOContext ==
    /\ pc = "openIO"
    /\ \/ /\ calls' = Append(calls, Call("OpenIOContext", TRUE))
          /\ defers' = Defer(defers, "ioCtx.Free")
          /\ pc' = "writeHeader"
          /\ UNCHANGED failure
       \/ StartupFail("OpenIOContext", "openIO")
    /\ UNCHANGED <<fps, ctxVars, samplerVars, consumerVars, streamTb>>

\* Mutant: the trailer is deferred before the I/O context's release.
DeferAfterHeaderBelowIo(d) ==
    SubSeq(d, 1, Len(d) - 1) \o <<"trailer", d[Len(d)]>>

\* The deferred calls registered once the header is written.
DeferAfterHeader(d) == Defer(d, "trailer")

\* outputCtx.SetPb(ioCtx), outputCtx.WriteHeader(nil), defer the trailer.
\* The muxer settles the stream time base while it writes the header.
WriteHeader ==
    /\ pc = "writeHeader"
    /\ \/ /\ calls' = Append(calls, Call("WriteHeader", TRUE))
          /\ defers' = DeferAfterHeader(defers)
          /\ streamTb' \in StreamTimeBases
          /\ pc' = "notifyContext"
          /\ UNCHANGED failure
       \/ /\ StartupFail("WriteHeader", "writeHeader")
          /\ UNCHANGED streamTb
    /\ UNCHANGED <<fps, ctxVars, samplerVars, consumerVars>>

\* ctx, stop := signal.NotifyContext(...); defer stop()
NotifyContext ==
    /\ pc = "notifyContext"
    /\ notify' = "armed"
    /\ defers' = Defer(defers, "stop")
    /\ pc' = "startCapture"
    /\ UNCHANGED <<fps, calls, failure, cancelled, sigCount, samplerVars,
                   consumerVars, streamTb>>

\* The per-frame increment: int64((90 * 1000) / fps), integer division.
PtsIncrement(f) == TimeBaseFreq \div f

\* imgChan := make(chan *image.RGBA); go StartScreenCap(...);
\* pts := int64((90 * 1000) / fps); frameNumber := int64(0)
StartCapture ==
    /\ pc = "startCapture"
    /\ spc' = "init"
    /\ pts' = PtsIncrement(fps)
    /\ frameNumber' = 0
    /\ pc' = "select"
    /\ UNCHANGED <<fps, defers, calls, failure, ctxVars, tick, captures,
                   pendingImg, delivered, img, framePts, encQueue, packet,
                   lastRecv, coloredLive, streamTb>>

\* ---------------------------------------------- orchestrator: main loop
\* Mutant: the error path exits without running the deferred calls.
FatalReturnExit(d) == <<>>

\* An error path of the loop: defer ctx.Done(); return.  ctx.Done() only
\* returns the channel, it cancels nothing.
FatalReturn(d) == Defer(d, "ctx.Done")

\* Mutant: the error is reported and the loop goes on with the next bitmap.
ConsumerFailContinue(entry, why) ==
    /\ calls' = Append(calls, entry)
    /\ failure' = why
    /\ defers' = defers
    /\ pc' = "select"

ConsumerFail(entry, why) ==
    /\ calls' = Append(calls, entry)
    /\ failure' = why
    /\ defers' = FatalReturn(defers)
    /\ pc' = "unwind"

\* Mutant: the consumer's select has no ctx.Done case.
ConsumerDoneReadyNever == FALSE

\* The cases of the consumer's select that are ready.  Go picks one of the
\* ready cases at random.
ConsumerDoneReady == cancelled
ConsumerRecvReady == spc = "send"

\* select { case <-ctx.Done(): return }
SelectDone ==
    /\ pc = "select"
    /\ ConsumerDoneReady
    /\ pc' = "unwind"
    /\ UNCHANGED <<fps, defers, calls, failure, ctxVars, samplerVars,
                   consumerVars, streamTb>>

\* The sampler's state once its send on imgChan has completed: the next
\* iteration of its loop.
AfterSend == "select"

\* select { case img := <-imgChan: ... }: the rendezvous with the sampler's
\* send on the unbuffered channel.
SelectRecv ==
    /\ pc = "select"
    /\ ConsumerRecvReady
    /\ img' = pendingImg
    /\ delivered' = Append(delivered, pendingImg)
    /\ pendingImg' = 0
    /\ spc' = AfterSend
    /\ pc' = "convert"
    /\ UNCHANGED <<fps, defers, calls, failure, ctxVars, tick, captures,
                   pts, frameNumber, framePts, encQueue, packet, lastRecv,
                   coloredLive, streamTb>>

\* The error returns of ImageRGBAtoAVFrame, in source order.
ConvertFailures == {"srcAllocBuffer", "makeWritable", "fromImage",
                    "coloredAllocBuffer", "createSws", "scaleFrame"}

\* The outcomes of ImageRGBAtoAVFrame after which coloredFrame has been
\* allocated (it has no deferred Free).
ColoredAllocated(f) ==
    f \in {"none", "coloredAllocBuffer", "createSws", "scaleFrame"}

\* frame, err := ImageRGBAtoAVFrame(img)
Convert ==
    /\ pc = "convert"
    /\ \E f \in ConvertFailures \cup {"none"} :
          /\ coloredLive' = IF ColoredAllocated(f) THEN coloredLive + 1
                            ELSE coloredLive
          /\ IF f = "none"
             THEN /\ calls' = Append(calls,
                        [Call("ImageRGBAtoAVFrame", TRUE) EXCEPT !.id = img])
                  /\ pc' = "sendFrame"
                  /\ UNCHANGED <<defers, failure>>
             ELSE ConsumerFail(
                    [Call("ImageRGBAtoAVFrame", FALSE) EXCEPT !.id = img], f)
    /\ UNCHANGED <<fps, ctxVars, samplerVars, delivered, img, pts,
                   frameNumber, framePts, encQueue, packet, lastRecv,
                   streamTb>>

\* Mutant: the frame counter is advanced before the frame is stamped.
StampPtsAfterIncrement(n, inc) == (n + 1) * inc

\* frameNumber * pts, the timestamp stamped on the frame.
StampPts(n, inc) == n * inc

\* frameNumber++ after a successful submission.
NextFrameNumber(n) == n + 1

\* frame.SetPts(frameNumber * pts); encCtx.SendFrame(frame); frameNumber++
SendFrame ==
    /\ pc = "sendFrame"
    /\ framePts' = StampPts(frameNumber, pts)
    /\ \/ /\ calls' = Append(calls, [Call("SendFrame", TRUE)
                              EXCEPT !.id = img, !.pts = framePts'])
          /\ encQueue' = Append(encQueue, [id |-> img, pts |-> framePts'])
          /\ frameNumber' = NextFrameNumber(frameNumber)
          /\ pc' = "allocPacket"
          /\ UNCHANGED <<defers, failure>>
       \/ /\ ConsumerFail([Call("SendFrame", FALSE)
                              EXCEPT !.id = img, !.pts = framePts'], "sendFrame")
          /\ UNCHANGED <<encQueue, frameNumber>>
    /\ UNCHANGED <<fps, ctxVars, samplerVars, delivered, img, pts, packet,
                   lastRecv, coloredLive, streamTb>>

\* packet := astiav.AllocPacket(); defer packet.Free()
AllocPacket ==
    /\ pc = "allocPacket"
    /\ \/ /\ calls' = Append(calls, Call("AllocPacket", TRUE))
          /\ defers' = Defer(defers, "packet.Free")
          /\ pc' = "receive"
          /\ UNCHANGED failure
       \/ ConsumerFail(Call("AllocPacket", FALSE), "allocPacket")
    /\ packet' = NoPacket
    /\ UNCHANGED <<fps, ctxVars, samplerVars, delivered, img, pts,
                   frameNumber, framePts, encQueue, lastRecv, coloredLive,
                   streamTb>>

\* Mutant: after the drain the loop submits again instead of selecting.
AfterBreakResubmit == "sendFrame"

\* Where the drain loop goes on ErrEof or ErrEagain: break, back to select.
AfterBreak == "select"

\* Mutant: only ErrEagain ends the drain, ErrEof is taken for an error.
DrainEndsOnAgainOnly == {"again"}

\* The receive outcomes that end the drain without an error:
\* errors.Is(err, astiav.ErrEof) || errors.Is(err, astiav.ErrEagain).
DrainEnds == {"again", "eof"}

\* err := encCtx.ReceivePacket(packet).  The encoder may hold frames back:
\* with frames buffered it returns the oldest one's packet or "again".
ReceivePacket ==
    /\ pc = "receive"
    /\ \/ /\ encQueue # <<>>
          /\ packet' = [id |-> Head(encQueue).id, pts |-> Head(encQueue).pts,
                        rs |-> 0]
          /\ encQueue' = Tail(encQueue)
          /\ lastRecv' = "packet"
          /\ calls' = Append(calls, CallP("ReceivePacket", TRUE, packet'))
          /\ pc' = "rescale"
          /\ UNCHANGED <<defers, failure, img>>
       \/ \E r \in {"again", "eof", "error"} :
             /\ lastRecv' = r
             /\ IF r \in DrainEnds
                THEN /\ pc' = AfterBreak
                     /\ img' = 0
                     /\ UNCHANGED <<defers, calls, failure>>
                ELSE /\ ConsumerFail(Call("ReceivePacket", FALSE),
                                     "receivePacket")
                     /\ UNCHANGED img
             /\ UNCHANGED <<encQueue, packet>>
    /\ UNCHANGED <<fps, ctxVars, samplerVars, delivered, pts, frameNumber,
                   framePts, coloredLive, streamTb>>

\* Greatest common divisor of two positive numbers.
RECURSIVE Gcd(_, _)
Gcd(a, b) == IF b = 0 THEN a ELSE Gcd(b, a % b)

\* av_rescale_q of a non-negative timestamp from time base 1/srcDen to
\* time base 1/dstDen, rounding to nearest (halves up): a * dstDen / srcDen.
\* The library computes it in 64 bits; the ratio is reduced first here,
\* which gives the same value and keeps the product small.
RescaleQ(a, srcDen, dstDen) ==
    LET g == Gcd(srcDen, dstDen)
        b == dstDen \div g
        c == srcDen \div g
    IN  (2 * a * b + c) \div (2 * c)

\* Mutant: the rescale is left out.
RescaleTsSkipped(p, srcDen, dstDen) == p

\* packet.RescaleTs(encCtx.TimeBase(), videoStream.TimeBase())
RescaleTs(p, srcDen, dstDen) ==
    [p EXCEPT !.pts = RescaleQ(p.pts, srcDen, dstDen), !.rs = p.rs + 1]

Rescale ==
    /\ pc = "rescale"
    /\ packet' = RescaleTs(packet, TimeBaseFreq, streamTb)
    /\ pc' = "write"
    /\ UNCHANGED <<fps, defers, calls, failure, ctxVars, samplerVars,
                   delivered, img, pts, frameNumber, framePts, encQueue,
                   lastRecv, coloredLive, streamTb>>

\* outputCtx.WriteFrame(packet): the muxer takes the packet's content and
\* leaves the packet blank.
WriteFrame ==
    /\ pc = "write"
    /\ \/ /\ calls' = Append(calls, CallP("WriteFrame", TRUE, packet))
          /\ pc' = "receive"
          /\ UNCHANGED <<defers, failure>>
       \/ ConsumerFail(CallP("WriteFrame", FALSE, packet), "writeFrame")
    /\ packet' = NoPacket
    /\ UNCHANGED <<fps, ctxVars, samplerVars, delivered, img, pts,
                   frameNumber, framePts, encQueue, lastRecv, coloredLive,
                   streamTb>>

\* ------------------------------------------- orchestrator: deferred calls
\* The deferred call that runs next (last in, first out) and the rest.
TopDeferred(d) == d[Len(d)]
PopDeferred(d) == SubSeq(d, 1, Len(d) - 1)

\* One deferred call runs.  stop() cancels ctx and unregisters the signal
\* handler; the deferred closure of line 121 writes the trailer; the others
\* release a resource (ctx.Done() does nothing).
RunDeferred ==
    /\ pc = "unwind"
    /\ defers # <<>>
    /\ defers' = PopDeferred(defers)
    /\ LET f == TopDeferred(defers) IN
         /\ IF f = "trailer"
            THEN \E ok \in BOOLEAN :
                    calls' = Append(calls, Call("WriteTrailer", ok))
            ELSE calls' = Append(calls, Call(f, TRUE))
         /\ IF f = "stop"
            THEN cancelled' = TRUE /\ notify' = "stopped"
            ELSE UNCHANGED <<cancelled, notify>>
    /\ UNCHANGED <<fps, pc, failure, sigCount, samplerVars, consumerVars,
                   streamTb>>

\* All deferred calls have run: StartScreenRecording returns.
Return ==
    /\ pc = "unwind"
    /\ defers = <<>>
    /\ pc' = "returned"
    /\ UNCHANGED <<fps, defers, calls, failure, ctxVars, samplerVars,
                   consumerVars, streamTb>>

\* ---------------------------------------------------------------- sampler
\* The process has not been terminated: its goroutines and its ticker run.
ProcessAlive == pc # "killed"

\* waitTime, GetDisplayBounds, time.NewTicker, defer ticker.Stop()
SamplerInit ==
    /\ ProcessAlive
    /\ spc = "init"
    /\ spc' = "select"
    /\ UNCHANGED <<fps, orchVars, ctxVars, tick, captures, pendingImg,
                   consumerVars, streamTb>>

\* The ticker fires: ticker.C has room for one tick, later ticks are lost.
Tick ==
    /\ ProcessAlive
    /\ spc \in {"select", "send"}
    /\ ~tick
    /\ tick' = TRUE
    /\ UNCHANGED <<fps, orchVars, ctxVars, spc, captures, pendingImg,
                   consumerVars, streamTb>>

\* Mutant: the send does not block, the loop goes on while a bitmap is
\* still pending.
SamplerAtSelectOrSending(s) == s \in {"select", "send"}

\* The sampler waits in its select only when it is not inside a case: the
\* send on imgChan blocks, the loop comes back to the select after it.
SamplerAtSelect(s) == s = "select"

\* The cases of the sampler's select that are ready.  Go picks one of the
\* ready cases at random.
SamplerDoneReady == cancelled
SamplerTickReady == tick

\* select { case <-ctx.Done(): return nil }
SamplerDone ==
    /\ ProcessAlive
    /\ SamplerAtSelect(spc)
    /\ SamplerDoneReady
    /\ spc' = "stopped"
    /\ UNCHANGED <<fps, orchVars, ctxVars, tick, captures, pendingImg,
                   consumerVars, streamTb>>

\* Mutant: a failed capture is skipped and the loop waits for the next tick.
AfterCaptureErrorRetry == "select"

\* The sampler's state after a failed capture: return err.
AfterCaptureError == "failed"

\* select { case <-ticker.C: img, err := screenshot.CaptureRect(res) ... }
\* then imgChan <- img, which blocks until the consumer receives.  A session
\* has at most MaxFrames captures.
SamplerCapture ==
    /\ ProcessAlive
    /\ SamplerAtSelect(spc)
    /\ SamplerTickReady
    /\ captures < MaxFrames
    /\ tick' = FALSE
    /\ \/ /\ captures' = captures + 1
          /\ pendingImg' = captures + 1
          /\ spc' = "send"
       \/ /\ spc' = AfterCaptureError
          /\ UNCHANGED <<captures, pendingImg>>
    /\ UNCHANGED <<fps, orchVars, ctxVars, consumerVars, streamTb>>

\* ------------------------------------------------------------ environment
\* The operator sends SIGINT while the handler of NotifyContext is
\* registered: ctx is cancelled (a repeated signal changes nothing more).
Interrupt ==
    /\ notify = "armed"
    /\ sigCount < MaxSignals
    /\ sigCount' = sigCount + 1
    /\ cancelled' = TRUE
    /\ UNCHANGED <<fps, orchVars, notify, samplerVars, consumerVars,
                   streamTb>>

\* The operator sends SIGINT after the deferred stop() has unregistered the
\* handler and while the output is not closed yet (the trailer write or
\* ioCtx.Free is still to run): the signal has its default effect again, the
\* process exits at once, its ticker with it, and no deferred call runs any
\* more.  Once the I/O context is closed the file is complete and the
\* process is about to exit anyway.
Kill ==
    /\ notify = "stopped"
    /\ pc = "unwind"
    /\ \E i \in 1..Len(defers) : defers[i] = "ioCtx.Free"
    /\ sigCount < MaxSignals
    /\ sigCount' = sigCount + 1
    /\ pc' = "killed"
    /\ tick' = FALSE
    /\ UNCHANGED <<fps, defers, calls, failure, notify, cancelled, spc,
                   captures, pendingImg, consumerVars, streamTb>>

\* ---------------------------------------------------------- specification
Orchestrator ==
    \/ AllocOutputFormatContext
    \/ NewH264EncoderCodec
    \/ NewStream
    \/ Open
    \/ FromCodecContext
    \/ SetTimeBase
    \/ OpenIOContext
    \/ WriteHeader
    \/ NotifyContext
    \/ StartCapture
    \/ SelectDone
    \/ SelectRecv
    \/ Convert
    \/ SendFrame
    \/ AllocPacket
    \/ ReceivePacket
    \/ Rescale
    \/ WriteFrame
    \/ RunDeferred
    \/ Return

Sampler ==
    \/ SamplerInit
    \/ SamplerDone
    \/ SamplerCapture

Next ==
    \/ Orchestrator
    \/ Sampler
    \/ Tick
    \/ Interrupt
    \/ Kill

Spec == Init /\ [][Next]_vars

\* The code's scheduling: a runnable goroutine runs and every library call
\* returns (weak fairness of both goroutines); a select picks among its
\* ready cases at random, so the consumer's ctx.Done case, ready every time
\* the loop comes back to the select, is eventually taken (strong fairness).
\* The ticker and the operator owe nothing.  Whether the session ends does
\* not depend on the frame rate, which only scales the timestamps: the fair
\* specification runs at the frame rate main() passes.
FairInit == Init /\ fps = 30

FairSpec ==
    /\ FairInit
    /\ [][Next]_vars
    /\ WF_vars(Orchestrator)
    /\ WF_vars(Sampler)
    /\ SF_vars(SelectDone)

\* ------------------------------------------------------------- properties
\* The calls of op in the history, in order.
CallsOf(op) == SelectSeq(calls, LAMBDA c : c.op = op)
\* The frames the encoder accepted, in order.
SentOk == SelectSeq(calls, LAMBDA c : c.op = "SendFrame" /\ c.ok)

HeaderOnceBeforePackets ==
    /\ Cardinality(Pos(calls, "WriteHeader")) <= 1
    /\ \A w \in Pos(calls, "WriteFrame") :
          \E h \in PosOk(calls, "WriteHeader") : h < w

TrailerOnceAfterPackets ==
    /\ Cardinality(Pos(calls, "WriteTrailer")) <= 1
    /\ \A t \in Pos(calls, "WriteTrailer") :
          /\ \E h \in PosOk(calls, "WriteHeader") : h < t
          /\ \A w \in Pos(calls, "WriteFrame") : w < t

IoFreedAfterTrailer ==
    \A f \in Pos(calls, "ioCtx.Free") :
        \E t \in Pos(calls, "WriteTrailer") : t < f

\* C1 as stated: the header is written once and before any packet write,
\* the trailer at most once, after a successful header write and after the
\* last packet write, and the I/O context is released only after the
\* trailer write.
C1_LifecycleOrder ==
    /\ HeaderOnceBeforePackets
    /\ TrailerOnceAfterPackets
    /\ IoFreedAfterTrailer

\* C1 amended: as C1, but the I/O context is released after the trailer
\* write only in a session whose header write succeeded; when the header
\* write fails, no trailer is written and the I/O context is still released.
C1_LifecycleOrderAmended ==
    /\ HeaderOnceBeforePackets
    /\ TrailerOnceAfterPackets
    /\ PosOk(calls, "WriteHeader") # {} => IoFreedAfterTrailer
    /\ (pc = "returned" /\ failure = "writeHeader") =>
          /\ Pos(calls, "WriteTrailer") = {}
          /\ Pos(calls, "ioCtx.Free") # {}

\* A session that wrote packets, then the trailer, then released the I/O
\* context.
C1_Witness ==
    /\ pc = "returned"
    /\ Len(CallsOf("WriteFrame")) >= 2
    /\ Pos(calls, "WriteTrailer") # {}
    /\ Pos(calls, "ioCtx.Free") # {}

\* C2: when the trailer is written the encoder has been flushed.  The
\* orchestrator never submits an end-of-stream signal (SendFrame is only
\* called with a frame), so the claim asks at least that no submitted frame
\* is still buffered inside the encoder when the trailer is written.
C2_FlushedBeforeTrailer ==
    Pos(calls, "WriteTrailer") # {} => encQueue = <<>>

\* The fatal errors of the main loop.
MidStreamFailures ==
    ConvertFailures \cup {"sendFrame", "allocPacket", "receivePacket",
                          "writeFrame"}

\* C3: a session that returns after a mid-stream fatal error has attempted
\* the trailer write and has released the I/O context after it.
C3_TrailerAfterFatalError ==
    (pc = "returned" /\ failure \in MidStreamFailures) =>
        \E t \in Pos(calls, "WriteTrailer") :
            \E f \in Pos(calls, "ioCtx.Free") : t < f

\* A session ended by a packet-write failure after one packet was written.
C3_Witness ==
    /\ pc = "returned"
    /\ failure = "writeFrame"
    /\ PosOk(calls, "WriteFrame") # {}
    /\ Pos(calls, "WriteTrailer") # {}

\* The orchestrator has written (attempted) the trailer and returned.
Finalized == pc = "returned" /\ Pos(calls, "WriteTrailer") # {}

\* C4: once the operator has interrupted the running pipeline, the
\* orchestrator eventually writes the trailer and returns, whatever the
\* sampler is doing (unless a further signal terminates the process).
C4_InterruptFinalizes == (sigCount > 0) ~> (Finalized \/ pc = "killed")

\* The orchestrator returned after an interrupt while the sampler is still
\* suspended on a handoff nobody received.
C4_Witness ==
    /\ Finalized
    /\ sigCount > 0
    /\ failure = "none"
    /\ spc = "send"
    /\ pendingImg # 0

\* C5: after a capture failure in the sampler, with no operator interrupt,
\* the orchestrator eventually writes the trailer and returns.
C5_CaptureFailureFinalizes ==
    (spc = "failed" /\ sigCount = 0) ~> (Finalized \/ sigCount > 0)

\* C6: the N-th frame the encoder accepted (N from 0) carries the timestamp
\* N * (90000 div fps), the frame counter equals the number of accepted
\* frames, and at fps = 30 the timestamps are 0, 3000, 6000, ...
C6_PtsOfFrameN ==
    /\ \A n \in 1..Len(SentOk) :
          /\ SentOk[n].pts = (n - 1) * (90000 \div fps)
          /\ fps = 30 => SentOk[n].pts = (n - 1) * 3000
    /\ frameNumber = Len(SentOk)

\* Two frames were accepted at fps = 30 and at a frame rate that does not
\* divide 90000; the second carries one increment.
C6_Witness ==
    /\ Len(SentOk) >= 2
    /\ \/ fps = 30 /\ SentOk[2].pts = 3000
       \/ fps = 7 /\ SentOk[2].pts = 12857

\* C7: every frame the encoder accepted has a timestamp strictly greater
\* than the frame accepted before it, at every frame rate.
C7_PtsStrictlyIncreasing ==
    \A n \in 2..Len(SentOk) : SentOk[n].pts > SentOk[n - 1].pts

\* C8: once ctx is cancelled the sampler captures nothing more and no
\* further bitmap passes to the consumer.
C8_CancelStopsSampler ==
    [][cancelled => (captures' = captures /\ delivered' = delivered)]_vars

\* The bitmaps (capture numbers) the calls of op were made for, in order.
Ids(op) == [i \in 1..Len(CallsOf(op)) |-> CallsOf(op)[i].id]
SentIds == [i \in 1..Len(SentOk) |-> SentOk[i].id]
Iota(n) == [i \in 1..n |-> i]
IsPrefix(a, b) == Len(a) <= Len(b) /\ a = SubSeq(b, 1, Len(a))
InLoopBody == pc \in {"convert", "sendFrame", "allocPacket", "receive",
                      "rescale", "write"}

C10_Backpressure ==
    /\ (pendingImg # 0) <=> (spc = "send")
    /\ pendingImg \in {0, captures}
    /\ delivered = Iota(Len(delivered))
    /\ captures = Len(delivered) + (IF pendingImg # 0 THEN 1 ELSE 0)

\* A slow consumer: the next tick has fired while a bitmap is pending and
\* the consumer is still draining the previous one.
C10_Witness ==
    /\ pendingImg # 0
    /\ tick
    /\ pc \in {"receive", "rescale", "write"}
    /\ Len(delivered) >= 1

\* C11: every packet passed to WriteFrame has been rescaled exactly once
\* since ReceivePacket filled it: a received packet is not yet rescaled, the
\* packet about to be written and every packet written were rescaled once,
\* and with a stream time base of 1/90000 the written timestamp is the one
\* the frame was stamped with.
C11_RescaledOnceBeforeWrite ==
    /\ \A i \in 1..Len(calls) :
          /\ calls[i].op = "WriteFrame" => calls[i].rs = 1
          /\ calls[i].op = "ReceivePacket" /\ calls[i].ok => calls[i].rs = 0
    /\ pc = "rescale" => packet.rs = 0
    /\ pc = "write" => packet.rs = 1
    /\ streamTb = 90000 =>
          \A i \in 1..Len(CallsOf("WriteFrame")) :
              CallsOf("WriteFrame")[i].pts = SentOk[i].pts

\* The second frame's packet, stamped 3000 at 30 fps, was written with the
\* timestamp 33 in a stream time base of 1/1000.
C11_Witness ==
    /\ fps = 30
    /\ streamTb = 1000
    /\ \E i \in PosOk(calls, "WriteFrame") :
          calls[i].id = 2 /\ calls[i].pts = 33 /\ calls[i].rs = 1

\* C12: a second stop signal changes nothing: the session goes on to the
\* same packets, the one trailer write and the same releases as after the
\* first signal alone.
C12_SecondSignalChangesNothing ==
    [][(sigCount >= 1 /\ sigCount' = sigCount + 1) =>
          UNCHANGED <<pc, defers, calls, failure, cancelled, notify>>]_vars

\* The errors of the startup steps.
StartupFailures ==
    {"allocOutput", "findEncoder", "allocCodecContext", "newStream", "open",
     "fromCodecContext", "openIO", "writeHeader"}

\* C13: when a startup step fails the session only unwinds: the signal
\* context is never created, the sampler is never started, nothing is
\* captured, no frame is submitted, no packet and no trailer is written.
C13_StartupFailureAborts ==
    failure \in StartupFailures =>
        /\ pc \in {"unwind", "returned"}
        /\ notify = "unset"
        /\ spc = "idle"
        /\ captures = 0
        /\ Pos(calls, "ImageRGBAtoAVFrame") = {}
        /\ Pos(calls, "SendFrame") = {}
        /\ Pos(calls, "WriteFrame") = {}
        /\ Pos(calls, "WriteTrailer") = {}

\* The last startup step, the header write, failed and the session
\* returned after releasing what it had acquired.
C13_Witness ==
    /\ pc = "returned"
    /\ failure = "writeHeader"
    /\ Pos(calls, "ioCtx.Free") # {}

OpenOnceBeforeFrames ==
    /\ Cardinality(Pos(calls, "Open")) <= 1
    /\ \A f \in Pos(calls, "SendFrame") :
          \E o \in PosOk(calls, "Open") : o < f
    /\ \A o \in Pos(calls, "Open") :
          \E p \in Pos(calls, "SetCodecParameters") : p < o

\* C14 as stated: the encoder is opened once, before any frame is
\* submitted, after its fixed parameters were set and after the stream-level
\* time base was set.
C14_OpenAfterStreamTimeBase ==
    /\ OpenOnceBeforeFrames
    /\ \A o \in Pos(calls, "Open") :
          \E t \in Pos(calls, "SetTimeBase") : t < o

\* C14 amended: the encoder is opened at most once, before any frame is
\* submitted and after its fixed parameters (its own time base among them)
\* were set; the stream-level time base is set after the successful open,
\* from the encoder's, and before the header is written.
C14_OpenBeforeStreamTimeBase ==
    /\ OpenOnceBeforeFrames
    /\ \A t \in Pos(calls, "SetTimeBase") :
          \E o \in PosOk(calls, "Open") : o < t
    /\ \A h \in Pos(calls, "WriteHeader") :
          \E t \in Pos(calls, "SetTimeBase") : t < h

\* A frame was submitted to the opened encoder.
C14_Witness ==
    /\ SentOk # <<>>
    /\ Cardinality(PosOk(calls, "Open")) = 1
    /\ Pos(calls, "SetTimeBase") # {}

\* The bitmaps whose packets ReceivePacket returned, in order.
RecvIds ==
    LET r == SelectSeq(calls, LAMBDA c : c.op = "ReceivePacket" /\ c.ok)
    IN  [i \in 1..Len(r) |-> r[i].id]

\* The calls of the loop body (the deferred calls are the others).
LoopOps == {"ImageRGBAtoAVFrame", "SendFrame", "AllocPacket",
            "ReceivePacket", "WriteFrame"}

\* Every packet received is written, in the order received, before the
\* next receive; after a failed receive the loop makes no further call.
DrainInvariant ==
    /\ IsPrefix(Ids("WriteFrame"), RecvIds)
    /\ Len(RecvIds) - Len(Ids("WriteFrame")) =
          (IF pc \in {"rescale", "write"} THEN 1 ELSE 0)
    /\ \A i \in 1..Len(calls) :
          (calls[i].op = "ReceivePacket" /\ ~calls[i].ok) =>
              /\ failure = "receivePacket"
              /\ pc \in {"unwind", "returned", "killed"}
              /\ \A j \in (i + 1)..Len(calls) : calls[j].op \notin LoopOps

\* One ReceivePacket call: a packet goes on to the rescale; "no packet
\* ready" and "stream ended" end the drain with no error and nothing
\* written; anything else is fatal.  After a write the drain receives again.
DrainStep ==
    /\ (pc = "receive" /\ pc' # "receive") =>
          \/ lastRecv' = "packet" /\ pc' = "rescale" /\ failure' = "none"
          \/ /\ lastRecv' \in {"again", "eof"}
             /\ pc' = "select"
             /\ failure' = "none"
             /\ calls' = calls
             /\ defers' = defers
          \/ /\ lastRecv' = "error"
             /\ pc' = "unwind"
             /\ failure' = "receivePacket"
    /\ (pc = "allocPacket" /\ pc' # "allocPacket" /\ failure' = "none") =>
          pc' = "receive"
    /\ (pc = "write" /\ pc' # "write" /\ failure' = "none") =>
          pc' = "receive"

\* C15: after a submission the orchestrator receives repeatedly; every
\* packet received is rescaled and written in the order received; the drain
\* ends at the first "no packet ready" or "stream ended" without an error;
\* any other outcome is fatal and no further frame is submitted.
C15_DrainLoop == [][DrainStep /\ DrainInvariant']_vars

\* A drain that wrote the packets of two frames ended on "stream ended"
\* and the consumer is back at its select with no error.
C15_Witness ==
    /\ lastRecv = "eof"
    /\ pc = "select"
    /\ failure = "none"
    /\ Len(Ids("WriteFrame")) >= 2

\* C16: once ctx is cancelled the consumer takes no further bitmap from
\* imgChan to convert and submit.
C16_NoNewWorkAfterCancel ==
    [][cancelled => ~(pc = "select" /\ pc' = "convert")]_vars

\* The sampler goroutine has ended (with its process at the latest).
SamplerTerminated == spc \in {"stopped", "failed"} \/ pc = "killed"

\* C17: once ctx is cancelled the sampler goroutine eventually ends.
C17_SamplerTerminates == cancelled ~> SamplerTerminated

\* C18: when the orchestrator has finalized, no encoder-facing frame is
\* left unreleased, every packet allocated was released, and the codec
\* context, the I/O context and the output container were released once.
C18_AllReleasedOnce ==
    Finalized =>
        /\ coloredLive = 0
        /\ Cardinality(Pos(calls, "packet.Free")) =
              Cardinality(PosOk(calls, "AllocPacket"))
        /\ Cardinality(Pos(calls, "encCtx.Free")) = 1
        /\ Cardinality(Pos(calls, "ioCtx.Free")) = 1
        /\ Cardinality(Pos(calls, "outputCtx.Free")) = 1

\* After a mid-stream fatal error the orchestrator only unwinds, and the
\* failed call is the one failed call of the loop and its last call.
FatalInvariant ==
    failure \in MidStreamFailures =>
        /\ pc \in {"unwind", "returned", "killed"}
        /\ \E i \in 1..Len(calls) :
              /\ calls[i].op \in LoopOps
              /\ ~calls[i].ok
              /\ \A j \in 1..Len(calls) :
                    (j # i /\ calls[j].op \in LoopOps) =>
                        (j < i /\ calls[j].ok)

\* After a mid-stream fatal error no bitmap is received, nothing is
\* submitted to the encoder or taken from it.
FatalStep ==
    failure \in MidStreamFailures =>
        /\ failure' = failure
        /\ delivered' = delivered
        /\ img' = img
        /\ frameNumber' = frameNumber
        /\ encQueue' = encQueue
        /\ packet' = packet

\* C19: a mid-stream fatal error stops new work at once: after the failing
\* call no bitmap is received or converted, no frame submitted, no packet
\* received or written, and the failed call is not made again.
C19_FatalErrorStopsWork == [][FatalStep /\ FatalInvariant']_vars

\* A session ended by the failed submission of the second bitmap, after
\* the first one's packet had been written.
C19_Witness ==
    /\ pc = "returned"
    /\ failure = "sendFrame"
    /\ delivered = <<1, 2>>
    /\ PosOk(calls, "WriteFrame") # {}

\* C20: a failed capture (a tick consumed with no bitmap captured) ends the
\* sampler with the error and forwards nothing; once it has failed the
\* sampler captures nothing, forwards nothing and never resumes.
C20_CaptureFailureIsFatal ==
    [][/\ (tick /\ ~tick' /\ captures' = captures /\ pc' # "killed") =>
             (spc' = "failed" /\ pendingImg' = 0 /\ delivered' = delivered)
       /\ spc = "failed" =>
             /\ spc' = "failed"
             /\ captures' = captures
             /\ pendingImg' = 0
             /\ delivered' = delivered]_vars

\* The second capture failed after the first bitmap had been forwarded.
C20_Witness ==
    /\ spc = "failed"
    /\ captures = 1
    /\ delivered = <<1>>
    /\ pendingImg = 0

====
